---- MODULE Spec2Model ----
(***************************************************************************)
(* Atomic Chess rules engine (src/ChessVar.py, class ChessVar).            *)
(*                                                                         *)
(* The state is the three fields of a ChessVar instance (board, turn,      *)
(* game_state) together with what the last make_move call handed back      *)
(* (result), the value of its local `target`, and the number of accepted   *)
(* moves so far (moves).  A board cell is the one-character string the     *)
(* Python code stores: upper case for White, lower case for Black, " "     *)
(* for an empty square.  A position is the two-character notation split    *)
(* into <<file letter, rank digit>>.                                       *)
(***************************************************************************)
EXTENDS Integers, Sequences, FiniteSets, TLC

VARIABLES board, turn, game_state, result, target, moves

vars == <<board, turn, game_state, result, target, moves>>

(***************************************************************************)
(* Bounds of the exploration.                                              *)
(***************************************************************************)
\* Number of successful moves explored from the starting position.
MaxMoves == 5

\* The squares the caller names in the explored games: the king-side
\* knights and their outposts, Black's g- and h-pawns and king's rook, both
\* kings and the squares in front of them.  Within MaxMoves moves they give
\* captures of enemy and of own pieces, explosions next to either king,
\* blocked and open lines, and a king standing next to an enemy piece.
PlayedSquares ==
    { <<"g","1">>, <<"f","3">>, <<"g","5">>, <<"f","7">>, <<"e","6">>,
      <<"f","6">>, <<"e","8">>, <<"h","7">>, <<"h","6">>, <<"h","5">>,
      <<"h","8">>, <<"e","2">>, <<"g","8">>, <<"e","7">>, <<"g","7">>,
      <<"e","1">> }

\* Notations that name no square of the 8x8 board.
OffBoard == { <<"i","1">>, <<"a","0">>, <<"a","9">> }

CallPositions == PlayedSquares \cup OffBoard

\* Every notation made of a letter 'a'..'i' and a digit '0'..'9'.
FileLetters == {"a","b","c","d","e","f","g","h","i"}
RankDigits  == {"0","1","2","3","4","5","6","7","8","9"}
AllPositions == FileLetters \X RankDigits

(***************************************************************************)
(* Python primitives used by the code.                                     *)
(***************************************************************************)
\* ord(c) for the letters that occur.
ord(c) ==
    CASE c = "a" -> 97 [] c = "b" -> 98 [] c = "c" -> 99 [] c = "d" -> 100
      [] c = "e" -> 101 [] c = "f" -> 102 [] c = "g" -> 103 [] c = "h" -> 104
      [] c = "i" -> 105

\* int(d) for a decimal digit.
int(d) ==
    CASE d = "0" -> 0 [] d = "1" -> 1 [] d = "2" -> 2 [] d = "3" -> 3
      [] d = "4" -> 4 [] d = "5" -> 5 [] d = "6" -> 6 [] d = "7" -> 7
      [] d = "8" -> 8 [] d = "9" -> 9

abs(x) == IF x < 0 THEN 0 - x ELSE x

islower(p) == p \in {"r","n","b","q","k","p"}
isupper(p) == p \in {"R","N","B","Q","K","P"}

upper(p) ==
    CASE p = "r" -> "R" [] p = "n" -> "N" [] p = "b" -> "B" [] p = "q" -> "Q"
      [] p = "k" -> "K" [] p = "p" -> "P" [] OTHER -> p

\* A Python list of length 8 accepts the indices -8..7; anything else raises
\* IndexError.  A negative index counts from the end.
Indexable(i) == i >= 0 - 8 /\ i <= 7
PyIndex(i) == IF i < 0 THEN i + 8 ELSE i
Cell(b, r, c) == b[PyIndex(r)][PyIndex(c)]

(***************************************************************************)
(* _convert_to_indices                                                     *)
(***************************************************************************)
convert_to_indices(position) ==
    <<8 - int(position[2]), ord(position[1]) - ord("a")>>

(***************************************************************************)
(* _initialize_board                                                       *)
(***************************************************************************)
Row(s) == [c \in 0..7 |-> s[c + 1]]

initialize_board ==
    [r \in 0..7 |->
        CASE r = 0 -> Row(<<"r","n","b","q","k","b","n","r">>)
          [] r = 1 -> Row(<<"p","p","p","p","p","p","p","p">>)
          [] r = 6 -> Row(<<"P","P","P","P","P","P","P","P">>)
          [] r = 7 -> Row(<<"R","N","B","Q","K","B","N","R">>)
          [] OTHER -> Row(<<" "," "," "," "," "," "," "," ">>)]

(***************************************************************************)
(* _is_valid_bishop_rook_queen_move                                        *)
(***************************************************************************)
\* The while loop of the diagonal branch: it runs while BOTH coordinates
\* differ from the end square.
RECURSIVE DiagonalWalk(_, _, _, _, _, _, _)
DiagonalWalk(b, current_row, current_col, end_row, end_col, row_step, col_step) ==
    IF current_row # end_row /\ current_col # end_col
    THEN IF b[current_row][current_col] # " "
         THEN FALSE
         ELSE DiagonalWalk(b, current_row + row_step, current_col + col_step,
                           end_row, end_col, row_step, col_step)
    ELSE TRUE

\* The while loop of the horizontal branch.
RECURSIVE HorizontalWalk(_, _, _, _, _)
HorizontalWalk(b, start_row, current_col, end_col, col_step) ==
    IF current_col # end_col
    THEN IF b[start_row][current_col] # " "
         THEN FALSE
         ELSE HorizontalWalk(b, start_row, current_col + col_step, end_col, col_step)
    ELSE TRUE

\* The while loop of the vertical branch.
RECURSIVE VerticalWalk(_, _, _, _, _)
VerticalWalk(b, current_row, start_col, end_row, row_step) ==
    IF current_row # end_row
    THEN IF b[current_row][start_col] # " "
         THEN FALSE
         ELSE VerticalWalk(b, current_row + row_step, start_col, end_row, row_step)
    ELSE TRUE

\* RookLikeMove with the two path loops left out.
RookLikeMove_NoPathTest(b, piece, start_row, start_col, end_row, end_col) ==
    /\ upper(piece) = "R" \/ upper(piece) = "Q"
    /\ start_row = end_row \/ start_col = end_col

\* Lines 195-216: the rook-like branch and the final return False.
RookLikeMove(b, piece, start_row, start_col, end_row, end_col) ==
    IF (upper(piece) = "R" \/ upper(piece) = "Q")
       /\ (start_row = end_row \/ start_col = end_col)
    THEN IF start_row = end_row
         THEN HorizontalWalk(b, start_row,
                             start_col + (IF end_col > start_col THEN 1 ELSE 0 - 1),
                             end_col,
                             IF end_col > start_col THEN 1 ELSE 0 - 1)
         ELSE VerticalWalk(b,
                           start_row + (IF end_row > start_row THEN 1 ELSE 0 - 1),
                           start_col, end_row,
                           IF end_row > start_row THEN 1 ELSE 0 - 1)
    ELSE FALSE

\* is_valid_bishop_rook_queen_move whose diagonal branch is the bishop's only.
is_valid_bishop_rook_queen_move_BishopOnly(b, piece, start_row, start_col, end_row, end_col) ==
    IF upper(piece) = "B"
       /\ abs(end_row - start_row) = abs(end_col - start_col)
    THEN LET row_step == IF end_row > start_row THEN 1 ELSE 0 - 1
             col_step == IF end_col > start_col THEN 1 ELSE 0 - 1
         IN  DiagonalWalk(b, start_row + row_step, start_col + col_step,
                          end_row, end_col, row_step, col_step)
    ELSE RookLikeMove(b, piece, start_row, start_col, end_row, end_col)

is_valid_bishop_rook_queen_move(b, piece, start_row, start_col, end_row, end_col) ==
    IF (upper(piece) = "B" \/ upper(piece) = "Q")
       /\ abs(end_row - start_row) = abs(end_col - start_col)
    THEN LET row_step == IF end_row > start_row THEN 1 ELSE 0 - 1
             col_step == IF end_col > start_col THEN 1 ELSE 0 - 1
         IN  DiagonalWalk(b, start_row + row_step, start_col + col_step,
                          end_row, end_col, row_step, col_step)
    ELSE RookLikeMove(b, piece, start_row, start_col, end_row, end_col)

(***************************************************************************)
(* _is_valid_move                                                          *)
(***************************************************************************)
\* Lines 150-165: what the function does once the pawn block is passed.
AfterPawnBlock(b, piece, start_row, start_col, end_row, end_col) ==
    IF upper(piece) = "N"
       /\ LET row_diff == abs(end_row - start_row)
              col_diff == abs(end_col - start_col)
          IN  (row_diff = 2 /\ col_diff = 1) \/ (row_diff = 1 /\ col_diff = 2)
    THEN TRUE
    ELSE IF upper(piece) \in {"B", "R", "Q"}
    THEN is_valid_bishop_rook_queen_move(b, piece, start_row, start_col, end_row, end_col)
    ELSE IF upper(piece) = "K"
            /\ abs(end_row - start_row) <= 1 /\ abs(end_col - start_col) <= 1
    THEN TRUE
    ELSE FALSE

\* WhitePawnAccepts whose two-square advance looks only at the destination.
WhitePawnAccepts_JumpsOver(b, target_, start_row, start_col, end_row, end_col) ==
    \/ /\ start_row = 6 /\ end_row = 4 /\ start_col = end_col
       /\ b[4][start_col] = " "
    \/ /\ end_row = start_row - 1 /\ start_col = end_col
       /\ b[end_row][end_col] = " "
    \/ /\ end_row = start_row - 1 /\ abs(start_col - end_col) = 1
       /\ target_ # " "

\* Lines 133-139: the three accepting tests of a White pawn.
WhitePawnAccepts(b, target_, start_row, start_col, end_row, end_col) ==
    \/ /\ start_row = 6 /\ end_row = 4 /\ start_col = end_col
       /\ b[5][start_col] = " " /\ b[4][start_col] = " "
    \/ /\ end_row = start_row - 1 /\ start_col = end_col
       /\ b[end_row][end_col] = " "
    \/ /\ end_row = start_row - 1 /\ abs(start_col - end_col) = 1
       /\ target_ # " "

\* Lines 141-147: the three accepting tests of a Black pawn.
BlackPawnAccepts(b, target_, start_row, start_col, end_row, end_col) ==
    \/ /\ start_row = 1 /\ end_row = 3 /\ start_col = end_col
       /\ b[2][start_col] = " " /\ b[3][start_col] = " "
    \/ /\ end_row = start_row + 1 /\ start_col = end_col
       /\ b[end_row][end_col] = " "
    \/ /\ end_row = start_row + 1 /\ abs(start_col - end_col) = 1
       /\ target_ # " "

\* WrongSide with the test of Black's turn left out.
WrongSide_WhiteTurnOnly(t, piece) == t = "WHITE" /\ islower(piece)

\* Line 119: the piece on the start square belongs to the side not to move.
WrongSide(t, piece) ==
    (t = "WHITE" /\ islower(piece)) \/ (t = "BLACK" /\ isupper(piece))

\* KingCapture forbidding a king only the capture of a piece of its own side.
KingCapture_OwnSideOnly(piece, target_) ==
    upper(piece) = "K" /\ target_ # " " /\ (isupper(piece) <=> isupper(target_))

\* Line 127: the move is a king stepping onto an occupied square.
KingCapture(piece, target_) == upper(piece) = "K" /\ target_ # " "

\* Lines 118-165, entered with indices that the two board reads accepted.
ValidFromIndices(b, t, start, end, start_row, start_col, end_row, end_col) ==
    LET piece   == Cell(b, start_row, start_col)
        target_ == Cell(b, end_row, end_col)
    IN  IF WrongSide(t, piece)
        THEN FALSE
        ELSE IF start = end
                \/ ~(/\ 0 <= start_row /\ start_row < 8
                     /\ 0 <= start_col /\ start_col < 8
                     /\ 0 <= end_row /\ end_row < 8
                     /\ 0 <= end_col /\ end_col < 8)
        THEN FALSE
        ELSE IF KingCapture(piece, target_)
        THEN FALSE
        ELSE IF upper(piece) = "P"
        THEN IF isupper(piece)
             THEN \/ WhitePawnAccepts(b, target_, start_row, start_col, end_row, end_col)
                  \/ AfterPawnBlock(b, piece, start_row, start_col, end_row, end_col)
             ELSE BlackPawnAccepts(b, target_, start_row, start_col, end_row, end_col)
        ELSE AfterPawnBlock(b, piece, start_row, start_col, end_row, end_col)

\* The outcome of _is_valid_move: "True", "False", or "IndexError" when one
\* of the board reads of lines 115-116 is out of the list's range.
is_valid_move(b, t, start, end) ==
    LET s == convert_to_indices(start)
        e == convert_to_indices(end)
    IN  IF ~(Indexable(s[1]) /\ Indexable(s[2]) /\ Indexable(e[1]) /\ Indexable(e[2]))
        THEN "IndexError"
        ELSE IF ValidFromIndices(b, t, start, end, s[1], s[2], e[1], e[2])
        THEN "True"
        ELSE "False"

(***************************************************************************)
(* _handle_explosion                                                       *)
(***************************************************************************)
directions ==
    << <<0 - 1, 0 - 1>>, <<0 - 1, 0>>, <<0 - 1, 1>>, <<0, 0 - 1>>,
       <<0, 1>>, <<1, 0 - 1>>, <<1, 0>>, <<1, 1>> >>

\* Spared sparing White's pawns only.
Spared_WhitePawnsOnly(p) == p \in {"P", " "}

\* Line 231: what the blast leaves alone, the cells in 'Pp '.
Spared(p) == p \in {"P", "p", " "}

\* Lines 229-232: the clearing loop, from the i-th direction on.
RECURSIVE ClearNeighbours(_, _, _, _)
ClearNeighbours(b, row, col, i) ==
    IF i > Len(directions)
    THEN b
    ELSE LET r == row + directions[i][1]
             c == col + directions[i][2]
         IN  IF 0 <= r /\ r < 8 /\ 0 <= c /\ c < 8 /\ ~Spared(b[r][c])
             THEN ClearNeighbours([b EXCEPT ![r][c] = " "], row, col, i + 1)
             ELSE ClearNeighbours(b, row, col, i + 1)

\* Lines 235-241: the king check over directions + [(0, 0)], from the i-th
\* entry on; gs is game_state as the loop has left it so far.
RECURSIVE KingCheck(_, _, _, _, _)
KingCheck(b, gs, row, col, i) ==
    LET around == Append(directions, <<0, 0>>)
    IN  IF i > Len(around)
        THEN gs
        ELSE LET r == row + around[i][1]
                 c == col + around[i][2]
             IN  IF 0 <= r /\ r < 8 /\ 0 <= c /\ c < 8
                 THEN KingCheck(b,
                                IF b[r][c] = "k" THEN "WHITE_WON"
                                ELSE IF b[r][c] = "K" THEN "BLACK_WON"
                                ELSE gs,
                                row, col, i + 1)
                 ELSE KingCheck(b, gs, row, col, i + 1)

\* The board and game_state that _handle_explosion(row, col) leaves.
handle_explosion(b, gs, row, col) ==
    LET cleared == ClearNeighbours([b EXCEPT ![row][col] = " "], row, col, 1)
    IN  [board |-> cleared, game_state |-> KingCheck(cleared, gs, row, col, 1)]

(***************************************************************************)
(* _is_king_captured                                                       *)
(***************************************************************************)
\* is_king_captured with the negation applied to the White king alone.
is_king_captured_MisplacedNot(b) ==
    LET white_king == \E r \in 0..7 : \E c \in 0..7 : b[r][c] = "K"
        black_king == \E r \in 0..7 : \E c \in 0..7 : b[r][c] = "k"
    IN  ~white_king \/ black_king

\* is_king_captured reporting a capture only when both kings are gone.
is_king_captured_BothMissing(b) ==
    /\ \A r \in 0..7 : \A c \in 0..7 : b[r][c] # "K"
    /\ \A r \in 0..7 : \A c \in 0..7 : b[r][c] # "k"

is_king_captured(b) ==
    LET white_king == \E r \in 0..7 : \E c \in 0..7 : b[r][c] = "K"
        black_king == \E r \in 0..7 : \E c \in 0..7 : b[r][c] = "k"
    IN  ~white_king \/ ~black_king

(***************************************************************************)
(* make_move                                                               *)
(***************************************************************************)
\* MoveResult without the test of line 59: a finished game still takes moves.
MoveResult_NoEndTest(b, t, gs, start, end) == is_valid_move(b, t, start, end)

\* What make_move(start, end) hands back in the state (b, t, gs): "True",
\* "False", or "IndexError" when the exception of _is_valid_move propagates.
MoveResult(b, t, gs, start, end) ==
    IF gs # "UNFINISHED" THEN "False" ELSE is_valid_move(b, t, start, end)

\* ExecuteMove detonating the destination after every move, capture or not.
ExecuteMove_AlwaysExplodes(b, gs, start, end) ==
    LET s == convert_to_indices(start)
        e == convert_to_indices(end)
        piece   == b[s[1]][s[2]]
        placed  == [[b EXCEPT ![e[1]][e[2]] = piece] EXCEPT ![s[1]][s[2]] = " "]
    IN  handle_explosion(placed, gs, e[1], e[2])

\* Lines 65-76 for an accepted move: the relocation and, after a capture,
\* the explosion.  Yields the board and game_state before the turn switch.
ExecuteMove(b, gs, start, end) ==
    LET s == convert_to_indices(start)
        e == convert_to_indices(end)
        piece   == b[s[1]][s[2]]
        target_ == b[e[1]][e[2]]
        placed  == [[b EXCEPT ![e[1]][e[2]] = piece] EXCEPT ![s[1]][s[2]] = " "]
    IN  IF target_ # " "
        THEN handle_explosion(placed, gs, e[1], e[2])
        ELSE [board |-> placed, game_state |-> gs]

\* SwitchTurn with both branches of the conditional giving 'BLACK'.
SwitchTurn_AlwaysBlack(t) == "BLACK"

\* Line 79.
SwitchTurn(t) == IF t = "WHITE" THEN "BLACK" ELSE "WHITE"

\* EndOfGame naming the winner after the king that is missing.
EndOfGame_ByMissingKing(b, t, gs) ==
    IF is_king_captured(b)
    THEN IF \A r \in 0..7 : \A c \in 0..7 : b[r][c] # "K"
         THEN "BLACK_WON" ELSE "WHITE_WON"
    ELSE gs

\* EndOfGame naming the side to move as the winner.
EndOfGame_SideToMoveWins(b, t, gs) ==
    IF is_king_captured(b)
    THEN IF t = "WHITE" THEN "WHITE_WON" ELSE "BLACK_WON"
    ELSE gs

\* Lines 81-83, evaluated with the turn already switched.
EndOfGame(b, t, gs) ==
    IF is_king_captured(b)
    THEN IF t = "WHITE" THEN "BLACK_WON" ELSE "WHITE_WON"
    ELSE gs

\* The fields after an accepted make_move(start, end).
AfterMove(b, t, gs, start, end) ==
    LET x == ExecuteMove(b, gs, start, end)
    IN  [board |-> x.board,
         turn |-> SwitchTurn(t),
         game_state |-> EndOfGame(x.board, SwitchTurn(t), x.game_state)]

\* The value of make_move's local `target` (line 68) for an accepted move.
TargetOf(b, end) ==
    LET e == convert_to_indices(end) IN b[e[1]][e[2]]

\* `target` when the call returned before line 68 assigned it.
Unassigned == "unassigned"

\* make_move(start, end) on its accepting path (lines 65-85).
make_move_accepted(start, end) ==
    /\ moves < MaxMoves
    /\ MoveResult(board, turn, game_state, start, end) = "True"
    /\ LET a == AfterMove(board, turn, game_state, start, end)
       IN  /\ board' = a.board
           /\ turn' = a.turn
           /\ game_state' = a.game_state
    /\ target' = TargetOf(board, end)
    /\ result' = "True"
    /\ moves' = moves + 1

\* Some call make_move(start, end) of the caller hands back r in this state.
SomeCallGives(r) ==
    ~(\A start \in CallPositions : \A end \in CallPositions :
        MoveResult(board, turn, game_state, start, end) # r)

\* make_move(start, end) returning False at line 60 or line 63, for some
\* start and end: nothing but the returned value tells the calls apart.
make_move_rejected ==
    /\ SomeCallGives("False")
    /\ result' = "False"
    /\ target' = Unassigned
    /\ UNCHANGED <<board, turn, game_state, moves>>

\* make_move(start, end) left by the IndexError of lines 115-116, for some
\* start and end.
make_move_raised ==
    /\ SomeCallGives("IndexError")
    /\ result' = "IndexError"
    /\ target' = Unassigned
    /\ UNCHANGED <<board, turn, game_state, moves>>

(***************************************************************************)
(* The game: construction, then any sequence of make_move calls.           *)
(***************************************************************************)
\* `result` before the first call.
NoCall == "none"

Init ==
    /\ board = initialize_board
    /\ turn = "WHITE"
    /\ game_state = "UNFINISHED"
    /\ result = NoCall
    /\ target = Unassigned
    /\ moves = 0

Next ==
    \/ \E start \in CallPositions : \E end \in CallPositions : make_move_accepted(start, end)
    \/ make_move_rejected
    \/ make_move_raised

Spec == Init /\ [][Next]_vars

TypeOK ==
    /\ turn \in {"WHITE", "BLACK"}
    /\ game_state \in {"UNFINISHED", "WHITE_WON", "BLACK_WON"}
    /\ result \in {NoCall, "True", "False", "IndexError"}
    /\ moves \in 0..MaxMoves

(***************************************************************************)
(* Vocabulary of the properties.                                           *)
(***************************************************************************)
\* The squares of the board as (row, column), and the 64 notations that
\* name them.
Squares == (0..7) \X (0..7)
BoardPositions == {"a","b","c","d","e","f","g","h"} \X {"1","2","3","4","5","6","7","8"}

\* The notation of a square: file letter of its column, digit of its rank.
Files == <<"a","b","c","d","e","f","g","h">>
Ranks == <<"1","2","3","4","5","6","7","8">>
Notation(rc) == <<Files[rc[2] + 1], Ranks[8 - rc[1]]>>

\* The occupant of a square.
At(b, rc) == b[rc[1]][rc[2]]

\* The colour a piece letter stands for.
ColourOf(p) == IF isupper(p) THEN "WHITE" ELSE IF islower(p) THEN "BLACK" ELSE "NONE"
Opponent(colour) == IF colour = "WHITE" THEN "BLACK" ELSE "WHITE"
WinOf(colour) == IF colour = "WHITE" THEN "WHITE_WON" ELSE "BLACK_WON"
KingOf(colour) == IF colour = "WHITE" THEN "K" ELSE "k"

\* The squares on which a piece letter stands.
Where(b, p) == {rc \in Squares : At(b, rc) = p}
KingPresent(b, colour) == Where(b, KingOf(colour)) # {}

\* The neighbours of a square, and its blast zone: the square and its
\* in-bounds neighbours.
Adjacent(rc, centre) ==
    /\ rc # centre
    /\ abs(rc[1] - centre[1]) <= 1
    /\ abs(rc[2] - centre[2]) <= 1
BlastZone(centre) == {rc \in Squares : rc = centre \/ Adjacent(rc, centre)}

\* What the call make_move(from, to), written in notation, returns in the
\* current state, and the fields it leaves when it is accepted.
Returns(from, to) ==
    MoveResult(board, turn, game_state, Notation(from), Notation(to))
Accepted(from, to) == Returns(from, to) = "True"
Outcome(from, to) ==
    AfterMove(board, turn, game_state, Notation(from), Notation(to))

(***************************************************************************)
(* C1.  Once game_state is WHITE_WON or BLACK_WON, every call              *)
(* make_move(start, end), for any start and end (on the board or not),     *)
(* returns False, and every step leaves the board, the turn and            *)
(* game_state as they were: a terminal game_state never changes again.     *)
(***************************************************************************)
C1_TerminalIsFinal ==
    [][game_state # "UNFINISHED" =>
          /\ \A start \in AllPositions : \A end \in AllPositions :
                MoveResult(board, turn, game_state, start, end) = "False"
          /\ result' = "False"
          /\ board' = board /\ turn' = turn /\ game_state' = game_state]_vars

\* A call was made after the game had ended, and it returned False.
C1_Witness ==
    /\ game_state # "UNFINISHED"
    /\ result = "False"
    /\ moves < MaxMoves

(***************************************************************************)
(* C2.  The turn starts at WHITE, and a step changes it to the other       *)
(* colour exactly when the make_move call of that step returns True,       *)
(* the move that ends the game included; a call that returns False (or     *)
(* raises) leaves the turn alone.                                          *)
(***************************************************************************)
C2_TurnFlipsIffAccepted ==
    /\ turn = "WHITE"
    /\ [][/\ (result' = "True") <=> (turn' # turn)
          /\ (result' = "True") => (turn' = Opponent(turn) /\ moves' = moves + 1)]_vars
    /\ [](turn = (IF moves % 2 = 0 THEN "WHITE" ELSE "BLACK"))

\* The move that ended the game flipped the turn as well.
C2_Witness ==
    /\ result = "True"
    /\ game_state = "WHITE_WON"
    /\ turn = "BLACK"
    /\ moves % 2 = 1

(***************************************************************************)
(* C3.  A successful capturing move by side S whose explosion destroys     *)
(* S's own king and not the opponent's leaves game_state at the win of     *)
(* the opposite colour (BLACK_WON after a White move, WHITE_WON after a    *)
(* Black move).                                                            *)
(***************************************************************************)
C3_OwnKingLostGivesOpponentWin ==
    [][(/\ result' = "True"
        /\ target' # " "
        /\ KingPresent(board, turn)
        /\ ~KingPresent(board', turn)
        /\ KingPresent(board', Opponent(turn)))
       => game_state' = WinOf(Opponent(turn))]_vars

(***************************************************************************)
(* C4.  When a capturing move of the side to move S is accepted and the    *)
(* opposing king, but not S's own king, stands on the captured square or   *)
(* on one of its 8 neighbours, the call returns True and game_state is     *)
(* S's win right after it; and every step that returns True after a        *)
(* capture and leaves only the opposing king off the board ends at S's     *)
(* win.                                                                    *)
(***************************************************************************)
KingInZone(b, colour, centre) == Where(b, KingOf(colour)) \cap BlastZone(centre) # {}

C4_EnemyKingInBlastWins ==
    /\ [](\A to \in Squares :
            (/\ At(board, to) # " "
             /\ KingInZone(board, Opponent(turn), to)
             /\ ~KingInZone(board, turn, to))
            => \A from \in Squares :
                  Accepted(from, to) => Outcome(from, to).game_state = WinOf(turn))
    /\ [][(/\ result' = "True"
           /\ target' # " "
           /\ KingPresent(board', turn)
           /\ ~KingPresent(board', Opponent(turn)))
          => game_state' = WinOf(turn)]_vars

\* A capture has just blown up the king of the side now to move, and only
\* that king; the mover is recorded as the winner.
C4_Witness ==
    /\ result = "True"
    /\ target # " "
    /\ ~KingPresent(board, turn)
    /\ KingPresent(board, Opponent(turn))
    /\ game_state = WinOf(Opponent(turn))

(***************************************************************************)
(* C5.  After an accepted make_move whose destination was occupied, the    *)
(* destination is empty, every neighbour of it that held a non-pawn piece  *)
(* is empty, every pawn on a neighbour is still there, and every square    *)
(* outside the destination and its neighbours, other than the start        *)
(* square, is unchanged.  C5_AsClaimed counts the start square among the   *)
(* neighbours whose pawn must stay; C5_ExplosionEffect excepts it and has  *)
(* the start square left empty.                                            *)
(***************************************************************************)
\* The effect on the squares in `checked` of a blast at `centre`.
BlastEffect(before, after, centre, from, checked) ==
    /\ At(after, centre) = " "
    /\ \A rc \in checked :
          IF Adjacent(rc, centre)
          THEN IF At(before, rc) \in {"P", "p"}
               THEN At(after, rc) = At(before, rc)
               ELSE At(before, rc) # " " => At(after, rc) = " "
          ELSE (rc # centre /\ rc # from) => At(after, rc) = At(before, rc)

C5_AsClaimed ==
    \A from \in Squares :
        ColourOf(At(board, from)) = turn =>
        \A to \in Squares :
            (At(board, to) # " " /\ Accepted(from, to)) =>
                BlastEffect(board, Outcome(from, to).board, to, from, Squares)

C5_ExplosionEffect ==
    \A to \in Squares :
        At(board, to) # " " =>
        \A from \in Squares :
            (ColourOf(At(board, from)) = turn /\ Accepted(from, to)) =>
                LET after == Outcome(from, to).board
                IN  /\ BlastEffect(board, after, to, from, Squares \ {from})
                    /\ At(after, from) = " "

\* The knight from g1 has captured on e2: e2, d1, e1 and f1 are empty, the
\* pawns on d2 and f2 stand, and the knight's square g1 is empty.
C5_Witness ==
    /\ result = "True"
    /\ target = "P"
    /\ moves = 1
    /\ board[6][4] = " "
    /\ board[7][3] = " " /\ board[7][4] = " " /\ board[7][5] = " "
    /\ board[6][3] = "P" /\ board[6][5] = "P"
    /\ board[7][6] = " "

(***************************************************************************)
(* C6.  No successful make_move has a destination that holds a piece of    *)
(* the mover's own colour: the piece a successful move captures is never   *)
(* one of the mover's.                                                     *)
(***************************************************************************)
C6_NoCaptureOfOwnPiece ==
    [][result' = "True" => ColourOf(target') # turn]_vars

(***************************************************************************)
(* C7.  A move of a pawn of the side to move one square diagonally         *)
(* forward is accepted if and only if the destination holds a piece of     *)
(* the opposing colour.                                                    *)
(***************************************************************************)
DiagonallyForward(colour, from, to) ==
    /\ to[1] = from[1] + (IF colour = "WHITE" THEN 0 - 1 ELSE 1)
    /\ abs(to[2] - from[2]) = 1

C7_PawnDiagonalIffEnemy ==
    \A from \in Squares :
        (/\ game_state = "UNFINISHED"
         /\ At(board, from) = (IF turn = "WHITE" THEN "P" ELSE "p"))
        => \A to \in Squares :
              DiagonallyForward(turn, from, to) =>
                  (Accepted(from, to) <=> ColourOf(At(board, to)) = Opponent(turn))

(***************************************************************************)
(* C8.  A move of a king, of either colour, onto an occupied square,       *)
(* whoever the occupant belongs to, is rejected: make_move returns False.  *)
(***************************************************************************)
C8_KingNeverCaptures ==
    \A from \in Squares :
        upper(At(board, from)) = "K" =>
        \A to \in Squares :
            At(board, to) # " " => Returns(from, to) = "False"

\* The king of the side to move stands next to an enemy piece, the game is
\* on, and a call has just been rejected.
C8_Witness ==
    /\ game_state = "UNFINISHED"
    /\ result = "False"
    /\ \E from \in Where(board, KingOf(turn)) :
          \E to \in Squares :
              /\ Adjacent(to, from)
              /\ ColourOf(At(board, to)) = Opponent(turn)

(***************************************************************************)
(* C9.  For a Bishop, Rook or Queen of the side to move, a move along a    *)
(* diagonal (Bishop, Queen) or along a rank or file (Rook, Queen) is       *)
(* accepted when every square strictly between start and end is empty,     *)
(* and rejected when one of them is occupied, whatever the colour of the   *)
(* occupant.                                                               *)
(***************************************************************************)
Sign(x) == IF x > 0 THEN 1 ELSE IF x < 0 THEN 0 - 1 ELSE 0
Larger(x, y) == IF x > y THEN x ELSE y

\* The squares strictly between two squares of one line.
Between(from, to) ==
    LET dr == to[1] - from[1]
        dc == to[2] - from[2]
    IN  {<<from[1] + k * Sign(dr), from[2] + k * Sign(dc)>> :
            k \in 1..(Larger(abs(dr), abs(dc)) - 1)}

\* The move from `from` to `to` runs along a line the piece travels on.
OnLineOf(piece, from, to) ==
    LET dr == to[1] - from[1]
        dc == to[2] - from[2]
    IN  /\ from # to
        /\ \/ upper(piece) \in {"B", "Q"} /\ abs(dr) = abs(dc)
           \/ upper(piece) \in {"R", "Q"} /\ (dr = 0 \/ dc = 0)

C9_SlidersStopAtOccupiedSquares ==
    \A from \in Squares :
        (/\ game_state = "UNFINISHED"
         /\ upper(At(board, from)) \in {"B", "R", "Q"}
         /\ ColourOf(At(board, from)) = turn)
        => \A to \in Squares :
              OnLineOf(At(board, from), from, to) =>
                  (Accepted(from, to)
                      <=> \A rc \in Between(from, to) : At(board, rc) = " ")

\* A rook of the side to move has an enemy piece, and nothing else, between
\* it and a square of its file, and an open rank to a square two or more
\* away; a call has just been rejected.
C9_Witness ==
    /\ game_state = "UNFINISHED"
    /\ result = "False"
    /\ \E from \in Where(board, IF turn = "WHITE" THEN "R" ELSE "r") :
          /\ \E to \in Squares :
                /\ OnLineOf("R", from, to)
                /\ \E rc \in Between(from, to) : At(board, rc) # " "
                /\ \A rc \in Between(from, to) :
                      At(board, rc) # " " => ColourOf(At(board, rc)) = Opponent(turn)
          /\ \E to \in Squares :
                /\ OnLineOf("R", from, to)
                /\ Between(from, to) # {}
                /\ \A rc \in Between(from, to) : At(board, rc) = " "

(***************************************************************************)
(* C10.  A make_move call in which start or end names no square of the     *)
(* 8x8 board (file outside 'a'-'h' or rank outside 1-8) returns False; it  *)
(* does not fail with an error.                                            *)
(***************************************************************************)
C10_OffBoardReturnsFalse ==
    \A start \in AllPositions : \A end \in AllPositions :
        (start \notin BoardPositions \/ end \notin BoardPositions) =>
            MoveResult(board, turn, game_state, start, end) = "False"

(***************************************************************************)
(* C11.  While the game is in progress, a make_move between squares of     *)
(* the board that the validator rejects returns False and leaves the       *)
(* board and game_state as they were.  The validator rejects a move onto   *)
(* its own start square, a move from an empty square or from a piece of    *)
(* the side not to move (tried towards each of the played squares), and a  *)
(* knight move that is not L-shaped.                                       *)
(***************************************************************************)
PlayedIndices == {convert_to_indices(p) : p \in PlayedSquares}

LShaped(from, to) ==
    {abs(to[1] - from[1]), abs(to[2] - from[2])} = {1, 2}

C11_RejectedMoveChangesNothing ==
    /\ [](game_state = "UNFINISHED" =>
            \A from \in Squares :
                /\ Returns(from, from) = "False"
                /\ ColourOf(At(board, from)) # turn =>
                      \A to \in PlayedIndices : Returns(from, to) = "False"
                /\ upper(At(board, from)) = "N" /\ ColourOf(At(board, from)) = turn =>
                      \A to \in Squares :
                          Returns(from, to) = (IF LShaped(from, to) THEN "True" ELSE "False"))
    /\ [][(game_state = "UNFINISHED" /\ result' = "False") =>
             (board' = board /\ game_state' = game_state)]_vars

\* A call was rejected in a game that is under way.
C11_Witness ==
    /\ game_state = "UNFINISHED"
    /\ result = "False"
    /\ moves > 0
    /\ moves < MaxMoves


(***************************************************************************)
(* C12.  In every reachable state whose game_state is UNFINISHED the board *)
(* holds exactly one White king and exactly one Black king.                *)
(***************************************************************************)
C12_BothKingsWhileUnfinished ==
    game_state = "UNFINISHED" =>
        /\ Cardinality(Where(board, "K")) = 1
        /\ Cardinality(Where(board, "k")) = 1

\* The game goes on after a capture has detonated.
C12_Witness ==
    /\ game_state = "UNFINISHED"
    /\ result = "True"
    /\ target \notin {" ", Unassigned}
    /\ Cardinality(Where(board, "K")) = 1
    /\ Cardinality(Where(board, "k")) = 1


(***************************************************************************)
(* C13.  A pawn move along its own column is accepted in exactly two       *)
(* cases: one square forward (towards row 0 for White, towards row 7 for   *)
(* Black) onto an empty square, or two squares forward from the home row   *)
(* (row 6 for White, row 1 for Black) with the square passed over and the  *)
(* destination both empty.  Every other move of a pawn along its column is *)
(* rejected with False.                                                    *)
(***************************************************************************)
HomeRow(colour) == IF colour = "WHITE" THEN 6 ELSE 1

\* How many rows `to` lies ahead of `from` for a pawn of the given colour.
Forward(colour, from, to) ==
    IF colour = "WHITE" THEN from[1] - to[1] ELSE to[1] - from[1]

PassedOver(from, to) == <<(from[1] + to[1]) \div 2, from[2]>>

StraightPawnMoveAllowed(b, from, to) ==
    LET colour == ColourOf(At(b, from))
    IN  \/ /\ Forward(colour, from, to) = 1
           /\ At(b, to) = " "
        \/ /\ Forward(colour, from, to) = 2
           /\ from[1] = HomeRow(colour)
           /\ At(b, PassedOver(from, to)) = " "
           /\ At(b, to) = " "

C13_PawnStraightAhead ==
    game_state = "UNFINISHED" =>
        \A from \in Squares :
            (upper(At(board, from)) = "P" /\ ColourOf(At(board, from)) = turn) =>
                \A row \in 0..7 :
                    Returns(from, <<row, from[2]>>) =
                        (IF StraightPawnMoveAllowed(board, from, <<row, from[2]>>)
                         THEN "True" ELSE "False")

\* Black's h-pawn has just advanced two squares from its home row, and a
\* pawn of the side to move stands on its home row with the square in front
\* of it occupied and the square beyond that empty.
C13_Witness ==
    /\ game_state = "UNFINISHED"
    /\ result = "True"
    /\ target = " "
    /\ board[1][7] = " " /\ board[2][7] = " " /\ board[3][7] = "p"
    /\ \E c \in 0..7 :
          /\ board[HomeRow(turn)][c] = (IF turn = "WHITE" THEN "P" ELSE "p")
          /\ board[(IF turn = "WHITE" THEN 5 ELSE 2)][c] # " "
          /\ board[(IF turn = "WHITE" THEN 4 ELSE 3)][c] = " "


(***************************************************************************)
(* C14.  When an accepted capture detonates with a king on the captured    *)
(* square or on one of its 8 neighbours, _handle_explosion has set         *)
(* game_state to a terminal value by the time it returns, that is before   *)
(* the turn is switched and before the king scan of lines 82-83.           *)
(***************************************************************************)
C14_HandlerEndsTheGame ==
    game_state = "UNFINISHED" =>
        \A to \in Squares :
            (/\ At(board, to) # " "
             /\ KingInZone(board, "WHITE", to) \/ KingInZone(board, "BLACK", to)) =>
                \A from \in Squares :
                    (/\ ColourOf(At(board, from)) = turn
                     /\ Accepted(from, to)) =>
                        ExecuteMove(board, game_state,
                                    Notation(from), Notation(to)).game_state
                            \in {"WHITE_WON", "BLACK_WON"}


(***************************************************************************)
(* C15.  A successful make_move onto an empty destination changes exactly  *)
(* two squares: the start square becomes empty and the destination holds   *)
(* the very piece that stood on the start square.  The 62 other squares    *)
(* keep their contents, nothing explodes, and game_state stays UNFINISHED. *)
(* Stated for every accepted move of the side to move onto an empty        *)
(* square, and for every step the game takes.                              *)
(***************************************************************************)
QuietMoveEffect(before, after, from, to) ==
    \A rc \in Squares :
        At(after, rc) = (IF rc = to THEN At(before, from)
                         ELSE IF rc = from THEN " "
                         ELSE At(before, rc))

C15_QuietMoveChangesTwoSquares ==
    /\ [](game_state = "UNFINISHED" =>
            \A to \in Squares :
                At(board, to) = " " =>
                    \A from \in Squares :
                        (ColourOf(At(board, from)) = turn /\ Accepted(from, to)) =>
                            /\ QuietMoveEffect(board, Outcome(from, to).board, from, to)
                            /\ Outcome(from, to).game_state = "UNFINISHED")
    /\ [][(result' = "True" /\ target' = " ") =>
             /\ \E from \in Squares : \E to \in Squares :
                    /\ from # to
                    /\ At(board, from) # " "
                    /\ At(board, to) = " "
                    /\ QuietMoveEffect(board, board', from, to)
             /\ game_state' = "UNFINISHED"]_vars

\* A piece has moved onto an empty square that has a piece other than a
\* pawn next to it.
C15_Witness ==
    /\ result = "True"
    /\ target = " "
    /\ game_state = "UNFINISHED"
    /\ \E to \in PlayedIndices :
          /\ At(board, to) # " "
          /\ \E rc \in BlastZone(to) \ {to} : ~Spared(At(board, rc))


(***************************************************************************)
(* C16.  On every board and for every start and end square, a Queen move   *)
(* is accepted exactly when the same move is accepted for a Bishop or for  *)
(* a Rook of the same colour standing on the same start square.  Stated    *)
(* of _is_valid_bishop_rook_queen_move for every square that holds a queen, *)
(* bishop or rook of the side to move, and of make_move for the queen of   *)
(* the side to move with each of the three pieces put on her square.       *)
(***************************************************************************)
\* The piece of the given kind ("Q", "B", "R") in the colour of piece p.
SameColourAs(p, kind) ==
    IF isupper(p) THEN kind
    ELSE CASE kind = "Q" -> "q" [] kind = "B" -> "b" [] kind = "R" -> "r"

\* _is_valid_bishop_rook_queen_move for a piece of the given kind, in the
\* colour of the piece on `from`, going from `from` to `to`.
SliderValid(kind, from, to) ==
    is_valid_bishop_rook_queen_move(board, SameColourAs(At(board, from), kind),
                                    from[1], from[2], to[1], to[2])

\* The board with a piece of the given kind, in the colour of the piece
\* that stands there, put on the square `from`.
PutOn(b, from, kind) ==
    [b EXCEPT ![from[1]][from[2]] = SameColourAs(At(b, from), kind)]

\* make_move(from, to) is accepted on the board b.
AcceptedOn(b, from, to) ==
    MoveResult(b, turn, game_state, Notation(from), Notation(to)) = "True"

C16_QueenIsBishopOrRook ==
    game_state = "UNFINISHED" =>
        \A from \in Squares :
            /\ (upper(At(board, from)) \in {"Q", "B", "R"}
                /\ ColourOf(At(board, from)) = turn) =>
                \A to \in Squares \ {from} :
                    SliderValid("Q", from, to) <=>
                        (SliderValid("B", from, to) \/ SliderValid("R", from, to))
            /\ (upper(At(board, from)) = "Q" /\ ColourOf(At(board, from)) = turn) =>
                LET queen  == PutOn(board, from, "Q")
                    bishop == PutOn(board, from, "B")
                    rook   == PutOn(board, from, "R")
                IN  \A to \in Squares :
                        AcceptedOn(queen, from, to) <=>
                            (AcceptedOn(bishop, from, to) \/ AcceptedOn(rook, from, to))

\* The queen of the side to move has an accepted move across at least one
\* empty square, and a move along one of her lines that is rejected.
C16_Witness ==
    /\ game_state = "UNFINISHED"
    /\ \E from \in Squares :
          /\ upper(At(board, from)) = "Q"
          /\ ColourOf(At(board, from)) = turn
          /\ \E to \in Squares : Between(from, to) # {} /\ Accepted(from, to)
          /\ \E to \in Squares : OnLineOf("Q", from, to) /\ ~Accepted(from, to)


(***************************************************************************)
(* C17.  In every reachable terminal state the winner is the side that     *)
(* made the last successful move: game_state WHITE_WON goes with turn      *)
(* BLACK and BLACK_WON with turn WHITE.  The same holds of lines 79-83 on  *)
(* the current board with both kings taken off it, as an explosion that    *)
(* destroys both kings at once leaves it.                                  *)
(***************************************************************************)
WithoutKings(b) ==
    [r \in 0..7 |-> [c \in 0..7 |-> IF b[r][c] \in {"K", "k"} THEN " " ELSE b[r][c]]]

C18_TerminalOnlyWithoutAKing ==
    game_state \in {"WHITE_WON", "BLACK_WON"} =>
        ~KingPresent(board, "WHITE") \/ ~KingPresent(board, "BLACK")

\* The game is over with White's king off the board and Black's on it, and
\* a later call has been turned down.
C18_Witness ==
    /\ game_state \in {"WHITE_WON", "BLACK_WON"}
    /\ ~KingPresent(board, "WHITE")
    /\ KingPresent(board, "BLACK")
    /\ result = "False"

====
